---------------------------- MODULE Spec2Model ----------------------------
(***************************************************************************)
(* Leaky-bucket rate limiter of github.com/2bytes/leaky (bucket.go).       *)
(*                                                                         *)
(* A Bucket holds only configuration; the per-client state lives in Redis  *)
(* under the key getKey(keyID).  Add(count, keyID) = fill(count, keyID)    *)
(* makes two store round trips: a Get inside getState and, when the        *)
(* request is admitted, a Set inside setState.  Nothing makes the pair     *)
(* atomic, so each request handler is a process that takes the Get (with   *)
(* the local computation that follows it) and the Set as separate steps.   *)
(*                                                                         *)
(* Time is the wall clock in whole milliseconds, the unit of `elapsed` in  *)
(* getState.  The clock never runs backwards.  SpaceRemaining is a float64 *)
(* in the code; every value the program writes is whole (float64(size),    *)
(* math.Floor(..), minus float64(count)), and for whole s and e >= 0       *)
(*    math.Floor(s + e * (rate / 60000.0)) = s + (e * rate) \div 60000     *)
(* for the rates and times of this model, so integers are used.            *)
(*                                                                         *)
(* The clock is stepped between calls: the Get and the Set of one call     *)
(* fall within one clock step, while the calls of other handlers may come  *)
(* between them.  Store failures are chosen per round trip.                *)
(*                                                                         *)
(* Spec is the Bucket under direct calls of Add.  Four more specifications *)
(* run the same actions in other settings: SpecHTTP (every Add is the one  *)
(* of a request served by ServeHTTP), SpecInstances (several Buckets of    *)
(* one configuration on one store), SpecTTL (buckets about as large as the *)
(* leak of one TTL) and SpecKeys (getKey on pairs of names spelled out as  *)
(* character sequences).                                                   *)
(***************************************************************************)
EXTENDS Integers, Sequences, FiniteSets, TLC

\* ------------------------------------------------------------------ bounds
MaxSize  == 2        \* bucket sizes 0..MaxSize
MaxCalls == 2        \* Add calls of a run with a fault or with overlapping calls
MaxSeqCalls == 3     \* Add calls of a fault-free run of calls made one at a time
MaxTicks == 2        \* clock steps of Quantum ms within one hour
Quantum  == 50       \* milliseconds per small clock step
MaxNameLen == 2      \* characters of a bucket name or of a client key

\* ------------------------------------------------------- program constants
HourMs      == 3600000     \* time.Hour, the TTL of setState, in ms
MsPerMinute == 60000       \* 60.0 * 1000.0 of newBucket
StatusTooManyRequests == 429   \* http.StatusTooManyRequests, written on deny
StatusOK == 200            \* what the wrapped handler of the tests writes

Rates   == {0, 600}        \* leakRatePerMin values (the tests use 0, 10, 600)
Sizes   == 0..MaxSize
Counts  == (-1..MaxSize + 1) \ {0}   \* Add counts: negative, within and over capacity
KeyIDs  == {"test-key"}
Requests == {"GET"}        \* the requests the middleware is served
Procs   == {1, 2}          \* concurrently served requests
Instances == {1, 2}        \* Buckets of one name, size and rate on one store

VARIABLES
  b,       \* the Bucket: [size, leakRatePerMin, bucketName]
  now,     \* wall clock, ms
  redis,   \* the store: cache key -> entry
  proc,    \* per request handler: position in fill and its locals
  last,    \* history: the Add call that returned last
  clean,   \* history: no fault so far (see Fault)
  seq,     \* history: no two Add calls have overlapped so far
  calls,   \* history: the number of Add calls started
  hist,    \* history: the Add calls that have returned, in order of return,
           \* kept as long as the run is clean
  names    \* two (bucketName, keyID) pairs and the cache keys composed for them

vars == <<b, now, redis, proc, last, clean, seq, calls, hist, names>>

Min(x, y) == IF x <= y THEN x ELSE y

\* ------------------------------------------------------------- the store
\* getKey: fmt.Sprintf("leaky::%s::%s", b.bucketName, keyID)
getKey(keyID) == "leaky::" \o b.bucketName \o "::" \o keyID

CacheKeys == {getKey(k) : k \in KeyIDs}

\* The same Sprintf on names spelled out as sequences of characters, to
\* compare the keys of different (bucketName, keyID) pairs: %s copies each
\* name as it is, with nothing escaped.
Alphabet == {"a", ":"}

NameStrings == UNION {[1..n -> Alphabet] : n \in 0..MaxNameLen}

NamePairs == [bucketName : NameStrings, keyID : NameStrings]

FormatKey(bucketName, keyID) ==
  <<"l", "e", "a", "k", "y", ":", ":">> \o bucketName \o <<":", ":">> \o keyID

NoNames == [pairs |-> <<>>, keys |-> <<>>]

\* A store entry: absent ("nil"), a marshalled bucketState ("json") or bytes
\* that do not unmarshal ("garbage").
NilEntry == [kind |-> "nil", SpaceRemaining |-> 0, LastUpdate |-> 0, expireAt |-> 0]

\* redis.Get at time t: an entry past its TTL is not returned.
RedisGet(store, key, t) ==
  LET e == store[key]
  IN  IF e.kind # "nil" /\ t >= e.expireAt THEN NilEntry ELSE e

RedisSetMinuteTTL(store, key, state, t) ==
  [store EXCEPT ![key] = [kind |-> "json",
                          SpaceRemaining |-> state.SpaceRemaining,
                          LastUpdate |-> state.LastUpdate,
                          expireAt |-> t + MsPerMinute]]

\* redis.Set(key, value, time.Hour) at time t.
RedisSet(store, key, state, t) ==
  [store EXCEPT ![key] = [kind |-> "json",
                          SpaceRemaining |-> state.SpaceRemaining,
                          LastUpdate |-> state.LastUpdate,
                          expireAt |-> t + HourMs]]

\* ------------------------------------------------------------ bucket.go
\* elapsed * b.leakRate, floored (leakRate = leakRatePerMin / 60000 per ms):
\* floor(elapsed * rate / 60000), split at whole minutes so that the product
\* stays within TLC's 32-bit integers (the code multiplies float64s).
LeakedRoundedUp(elapsed) ==
  (elapsed \div MsPerMinute) * b.leakRatePerMin
    + ((elapsed % MsPerMinute) * b.leakRatePerMin + MsPerMinute - 1) \div MsPerMinute

LeakedSignSlip(elapsed) ==
  0 - ((elapsed \div MsPerMinute) * b.leakRatePerMin
         + ((elapsed % MsPerMinute) * b.leakRatePerMin) \div MsPerMinute)

Leaked(elapsed) ==
  (elapsed \div MsPerMinute) * b.leakRatePerMin
    + ((elapsed % MsPerMinute) * b.leakRatePerMin) \div MsPerMinute

\* The outcome of the Get/Scan of getState: "err" (store unreachable,
\* timeout), "nil" (redis.Nil), "garbage" (Scan fails to unmarshal), "found".
GetOutcome(store, keyID, t, getErr) ==
  IF getErr THEN "err"
  ELSE LET k == RedisGet(store, getKey(keyID), t).kind
       IN  IF k = "json" THEN "found" ELSE k

getStateUnclamped(store, keyID, t, getErr) ==
  LET lastState == RedisGet(store, getKey(keyID), t)
  IN  IF GetOutcome(store, keyID, t, getErr) # "found"
      THEN [SpaceRemaining |-> b.size, LastUpdate |-> t]
      ELSE [SpaceRemaining |-> lastState.SpaceRemaining
                                 + Leaked(t - lastState.LastUpdate),
            LastUpdate |-> t]

getStateFailClosed(store, keyID, t, getErr) ==
  LET lastState == RedisGet(store, getKey(keyID), t)
      outcome == GetOutcome(store, keyID, t, getErr)
  IN  IF outcome = "err"
      THEN [SpaceRemaining |-> 0, LastUpdate |-> t]
      ELSE IF outcome # "found"
      THEN [SpaceRemaining |-> b.size, LastUpdate |-> t]
      ELSE [SpaceRemaining |-> Min(b.size, lastState.SpaceRemaining
                                             + Leaked(t - lastState.LastUpdate)),
            LastUpdate |-> t]

getStateZeroIsMissing(store, keyID, t, getErr) ==
  LET lastState == RedisGet(store, getKey(keyID), t)
  IN  IF \/ GetOutcome(store, keyID, t, getErr) # "found"
         \/ lastState.SpaceRemaining = 0
      THEN [SpaceRemaining |-> b.size, LastUpdate |-> t]
      ELSE [SpaceRemaining |-> Min(b.size, lastState.SpaceRemaining
                                             + Leaked(t - lastState.LastUpdate)),
            LastUpdate |-> t]

\* getState
getState(store, keyID, t, getErr) ==
  LET lastState == RedisGet(store, getKey(keyID), t)
  IN  IF GetOutcome(store, keyID, t, getErr) # "found"
      THEN [SpaceRemaining |-> b.size, LastUpdate |-> t]
      ELSE LET elapsed == t - lastState.LastUpdate
               newRemaining == lastState.SpaceRemaining + Leaked(elapsed)
           IN  [SpaceRemaining |-> Min(b.size, newRemaining), LastUpdate |-> t]

setStateDropsOnError(store, updatedState, keyID, t, setErr) ==
  IF setErr THEN [store EXCEPT ![getKey(keyID)] = NilEntry]
  ELSE RedisSet(store, getKey(keyID), updatedState, t)

\* What the Bucket inst would refresh keyID to had it kept, in its state
\* field, the state its own last call for keyID had left.
getStateOfInstance(inst, store, keyID, t, getErr) ==
  LET mine == {i \in 1..Len(hist) :
                 hist[i].inst = inst /\ hist[i].keyID = keyID}
      i == CHOOSE m \in mine : \A n \in mine : n <= m
      kept == IF hist[i].ret THEN hist[i].curr - hist[i].count
              ELSE hist[i].curr
  IN  IF mine = {} THEN getState(store, keyID, t, getErr)
      ELSE [SpaceRemaining |-> Min(b.size, kept + Leaked(t - hist[i].at)),
            LastUpdate |-> t]

\* b.getState(keyID) on the Bucket inst: it reads the store and the
\* configuration, and no other field of the Bucket (Bucket.state is unused).
getStateOn(inst, store, keyID, t, getErr) == getState(store, keyID, t, getErr)

\* setState: a failed Set is logged and nothing else happens.
setState(store, updatedState, keyID, t, setErr) ==
  IF setErr THEN store ELSE RedisSet(store, getKey(keyID), updatedState, t)

HasSpaceOffByOne(currState, count) == ~(currState.SpaceRemaining + 1 < count)

HasSpaceStrictly(currState, count) == currState.SpaceRemaining > count

\* fill, line 101: is there space for count drops?
HasSpace(currState, count) == ~(currState.SpaceRemaining < count)

FilledWithoutCount(currState, count, t) ==
  [SpaceRemaining |-> currState.SpaceRemaining, LastUpdate |-> t]

\* fill, line 105: the state handed to setState.
Filled(currState, count, t) ==
  [SpaceRemaining |-> currState.SpaceRemaining - count, LastUpdate |-> t]

StoreRefreshedOnDeny(store, currState, keyID, t) ==
  RedisSet(store, getKey(keyID), currState, t)

\* fill, lines 101-103: the store after a denied fill (no write at all).
StoreAfterDeny(store, currState, keyID, t) == store

\* ------------------------------------------------------------ processes
\* A handler between its Get and its Set holds the arguments of the call
\* (count, keyID), the refreshed state (curr, lu), the time.Now() of fill's
\* line 105 (at: the same millisecond as the refresh) and, as history, the
\* outcome of its Get and whether another call overlapped it.
Idle == [pc |-> "idle", keyID |-> "", count |-> 0, at |-> 0, get |-> "",
         curr |-> 0, lu |-> 0, raced |-> FALSE, http |-> FALSE, inst |-> 0]

\* keyFunc of the tests: every request is of the same client.
keyFunc(r) == "test-key"

\* What a request got: how many times the wrapped handler was invoked and
\* the status written.  A direct call of Add serves no request.
NoResponse == [handler |-> 0, status |-> 0]

ServeHTTPAlwaysForwards(ok) ==
  [handler |-> 1, status |-> IF ok THEN StatusOK ELSE StatusTooManyRequests]

\* ServeHTTP, lines 136-140: the wrapped handler on allow, http.Error on deny.
ServeHTTPResponse(ok) ==
  IF ok THEN [handler |-> 1, status |-> StatusOK]
  ELSE [handler |-> 0, status |-> StatusTooManyRequests]

NoCall == [keyID |-> "", count |-> 0, get |-> "", curr |-> 0,
           ret |-> FALSE, set |-> "", http |-> FALSE, resp |-> NoResponse]

InFlight(keyID) == {q \in Procs : proc[q].pc = "set" /\ proc[q].keyID = keyID}

NInFlight == Cardinality({q \in Procs : proc[q].pc = "set"})

\* The record of a returned call, as hist keeps it.
Returned(me, ret, set) ==
  [keyID |-> me.keyID, count |-> me.count, at |-> me.at, get |-> me.get,
   curr |-> me.curr, ret |-> ret, set |-> set, raced |-> me.raced,
   inst |-> me.inst]

\* The record of a returned call, as last keeps it.
Last(me, ret, set) ==
  [keyID |-> me.keyID, count |-> me.count, get |-> me.get,
   curr |-> me.curr, ret |-> ret, set |-> set, http |-> me.http,
   resp |-> IF me.http THEN ServeHTTPResponse(ret) ELSE NoResponse]

\* A fault is a store error, an unreadable value, an entry lost to its TTL or
\* a negative count: what the contract of a rate limit assumes away.
Fault(store, count, keyID, outcome) ==
  \/ outcome \in {"err", "garbage"}
  \/ outcome = "nil" /\ store[getKey(keyID)].kind # "nil"
  \/ count < 0

Init ==
  /\ b \in [size : Sizes, leakRatePerMin : Rates, bucketName : {"test"}]
  /\ now = 0
  /\ redis = [k \in CacheKeys |-> NilEntry]
  /\ proc = [p \in Procs |-> Idle]
  /\ last = NoCall
  /\ clean = TRUE
  /\ seq = TRUE
  /\ calls = 0
  /\ hist = <<>>
  /\ names = NoNames

\* Add -> fill, first half: getState (the Get round trip and the refresh) and
\* the space check.  A denied call returns here.  Handlers are
\* interchangeable: the lowest idle one takes the request.  http tells
\* whether Add was called by ServeHTTP, which then writes the response.
AddGet(p, inst, count, keyID, getErr, http) ==
  /\ proc[p].pc = "idle"
  /\ \A q \in Procs : q < p => proc[q].pc = "set"
  /\ LET currState == getStateOn(inst, redis, keyID, now, getErr)
         outcome   == GetOutcome(redis, keyID, now, getErr)
         raced     == InFlight(keyID) # {}
         fault     == Fault(redis, count, keyID, outcome)
         me        == [pc |-> "set", keyID |-> keyID, count |-> count,
                       at |-> now, get |-> outcome,
                       curr |-> currState.SpaceRemaining,
                       lu |-> currState.LastUpdate, raced |-> raced,
                       http |-> http, inst |-> inst]
         others    == [q \in Procs |->
                         IF q \in InFlight(keyID)
                         THEN [proc[q] EXCEPT !.raced = TRUE] ELSE proc[q]]
     IN  /\ clean' = (clean /\ ~fault)
         /\ seq' = (seq /\ NInFlight = 0)
         /\ calls < (IF clean' /\ seq' THEN MaxSeqCalls ELSE MaxCalls)
         /\ IF HasSpace(currState, count)
            THEN /\ proc' = [others EXCEPT ![p] = me]
                 /\ hist' = (IF clean' THEN hist ELSE <<>>)
                 /\ UNCHANGED <<redis, last>>
            ELSE /\ redis' = StoreAfterDeny(redis, currState, keyID, now)
                 /\ last' = Last(me, FALSE, "none")
                 /\ hist' = (IF clean' THEN Append(hist, Returned(me, FALSE, "none"))
                             ELSE <<>>)
                 /\ proc' = others
  /\ calls' = calls + 1
  /\ UNCHANGED <<names, b, now>>

\* ServeHTTP: Add(1, keyFunc(r)) for the request r.
ServeHTTP(p, r, getErr) == AddGet(p, 1, 1, keyFunc(r), getErr, TRUE)

\* fill, second half: setState (the Set round trip) and return true.
AddSet(p, setErr) ==
  /\ proc[p].pc = "set"
  /\ LET me == proc[p]
         currState == [SpaceRemaining |-> me.curr, LastUpdate |-> me.lu]
         set == IF setErr THEN "err" ELSE "ok"
     IN  /\ redis' = setState(redis, Filled(currState, me.count, me.at),
                              me.keyID, now, setErr)
         /\ last' = Last(me, TRUE, set)
         /\ clean' = (clean /\ ~setErr)
         /\ hist' = (IF clean' THEN Append(hist, Returned(me, TRUE, set))
                     ELSE <<>>)
  /\ proc' = [proc EXCEPT ![p] = Idle]
  /\ UNCHANGED <<names, b, now, seq, calls>>

\* Another Add call can still start: the budget of the run is not used up.
MoreCalls == calls < (IF clean /\ seq THEN MaxSeqCalls ELSE MaxCalls)

\* The clock advances by a small step.  Only getState reads the clock, so it
\* is stepped between calls, while another call can come.
Tick ==
  /\ NInFlight = 0
  /\ MoreCalls
  /\ (now % HourMs) + Quantum <= MaxTicks * Quantum
  /\ now' = now + Quantum
  /\ UNCHANGED <<names, b, redis, proc, last, clean, seq, calls, hist>>

\* The clock advances by an hour, the TTL of every entry; once, which leaves
\* every entry written before it expired.
TickHour ==
  /\ NInFlight = 0
  /\ MoreCalls
  /\ now < HourMs
  /\ now' = now + HourMs
  /\ UNCHANGED <<names, b, redis, proc, last, clean, seq, calls, hist>>

\* Redis removes an entry whose TTL has run out.
Expire(key) ==
  /\ redis[key].kind # "nil"
  /\ now >= redis[key].expireAt
  /\ redis' = [redis EXCEPT ![key] = NilEntry]
  /\ clean' = FALSE
  /\ hist' = <<>>
  /\ UNCHANGED <<names, b, now, proc, last, seq, calls>>

\* Another client of the store overwrites the value with bytes that do not
\* unmarshal into a bucketState; the TTL is kept.
Corrupt(key) ==
  /\ redis[key].kind = "json"
  /\ now < redis[key].expireAt
  /\ redis' = [redis EXCEPT ![key] =
        [kind |-> "garbage", SpaceRemaining |-> 0, LastUpdate |-> 0,
         expireAt |-> redis[key].expireAt]]
  /\ clean' = FALSE
  /\ hist' = <<>>
  /\ UNCHANGED <<names, b, now, proc, last, seq, calls>>

Next ==
  \/ \E p \in Procs, count \in Counts, keyID \in KeyIDs, getErr \in BOOLEAN :
        AddGet(p, 1, count, keyID, getErr, FALSE)
  \/ \E p \in Procs, setErr \in BOOLEAN : AddSet(p, setErr)
  \/ Tick
  \/ TickHour
  \/ \E key \in CacheKeys : Expire(key)
  \/ \E key \in CacheKeys : Corrupt(key)

Spec == Init /\ [][Next]_vars

\* ------------------------------------------------- the Bucket as middleware
\* Every Add is the one of a request served by ServeHTTP; the store and the
\* clock behave as in Spec.
NextHTTP ==
  \/ \E p \in Procs, r \in Requests, getErr \in BOOLEAN : ServeHTTP(p, r, getErr)
  \/ \E p \in Procs, setErr \in BOOLEAN : AddSet(p, setErr)
  \/ Tick
  \/ TickHour
  \/ \E key \in CacheKeys : Expire(key)
  \/ \E key \in CacheKeys : Corrupt(key)

SpecHTTP == Init /\ [][NextHTTP]_vars

\* ------------------------------------------- several Buckets on one store
\* Add calls made one at a time, without store errors, each handled by any
\* of the instances; the clock and the TTL behave as in Spec.  The instances
\* are interchangeable: the first call is handled by the first of them.
NextInstances ==
  \/ \E inst \in Instances, count \in Counts, keyID \in KeyIDs :
        /\ NInFlight = 0
        /\ calls = 0 => inst = 1
        /\ count >= 1 /\ count <= b.size
        /\ AddGet(1, inst, count, keyID, FALSE, FALSE)
  \/ AddSet(1, FALSE)
  \/ Tick
  \/ TickHour
  \/ \E key \in CacheKeys : Expire(key)

SpecInstances == Init /\ [][NextInstances]_vars

\* ------------------------------------------- buckets that drain in an hour
\* Buckets whose size is about what leaks in one TTL, at one and two drops
\* a minute; calls of one drop or of the whole bucket, made one at a time,
\* without store errors.
MinutesPerHour == HourMs \div MsPerMinute

SlowRates == {1, 2}

HourSizes == {n * MinutesPerHour + d : n \in SlowRates, d \in {-1, 0, 1}}

InitTTL ==
  /\ b \in [size : HourSizes, leakRatePerMin : SlowRates, bucketName : {"test"}]
  /\ now = 0
  /\ redis = [k \in CacheKeys |-> NilEntry]
  /\ proc = [p \in Procs |-> Idle]
  /\ last = NoCall
  /\ clean = TRUE
  /\ seq = TRUE
  /\ calls = 0
  /\ hist = <<>>
  /\ names = NoNames

NextTTL ==
  \/ \E count \in {1, b.size}, keyID \in KeyIDs :
        /\ NInFlight = 0
        /\ AddGet(1, 1, count, keyID, FALSE, FALSE)
  \/ AddSet(1, FALSE)
  \/ Tick
  \/ TickHour
  \/ \E key \in CacheKeys : Expire(key)

SpecTTL == InitTTL /\ [][NextTTL]_vars

\* ------------------------------------------------- the keys of two clients
\* Two Buckets (or one Bucket and two clients) each compose their cache key.
InitKeys ==
  /\ names \in {[pairs |-> <<x, y>>, keys |-> <<>>] : x, y \in NamePairs}
  /\ b = [size |-> 1, leakRatePerMin |-> 0, bucketName |-> "test"]
  /\ now = 0
  /\ redis = [k \in CacheKeys |-> NilEntry]
  /\ proc = [p \in Procs |-> Idle]
  /\ last = NoCall
  /\ clean = TRUE
  /\ seq = TRUE
  /\ calls = 0
  /\ hist = <<>>

GetKeys ==
  /\ names.keys = <<>>
  /\ names' = [names EXCEPT !.keys =
                  <<FormatKey(names.pairs[1].bucketName, names.pairs[1].keyID),
                    FormatKey(names.pairs[2].bucketName, names.pairs[2].keyID)>>]
  /\ UNCHANGED <<b, now, redis, proc, last, clean, seq, calls, hist>>

NextKeys == GetKeys

SpecKeys == InitKeys /\ [][NextKeys]_vars


\* ------------------------------------------------------------ the claims
\* The calls of hist for keyID, as indices into hist.
CallsFor(keyID) == {i \in 1..Len(hist) : hist[i].keyID = keyID}

\* The count admitted for keyID by the calls i..j of hist.
RECURSIVE AdmittedIn(_, _, _)
AdmittedIn(keyID, i, j) ==
  IF i > j THEN 0
  ELSE (IF hist[j].keyID = keyID /\ hist[j].ret THEN hist[j].count ELSE 0)
         + AdmittedIn(keyID, i, j - 1)

\* A fault-free run of calls made one at a time: the setting of C1, C2, C9.
Sequential == clean /\ seq

\* C1  Rate limit bound.  In a fault-free run of calls made one at a time
\* (no store error, no expiry, no negative count), the count admitted for a
\* key between two admitted calls, both included, is at most
\* size + T * leakRate, T the time between them in ms and
\* leakRate = leakRatePerMin / 60000.
C1_RateLimitBound ==
  Sequential =>
    \A k \in KeyIDs : \A i, j \in CallsFor(k) :
      (i <= j /\ hist[i].ret /\ hist[j].ret) =>
        (AdmittedIn(k, i, j) - b.size) * MsPerMinute
          <= (hist[j].at - hist[i].at) * b.leakRatePerMin

\* A client that sent faster than the leak rate was throttled to it: an
\* admission, a denial, and a second admission that uses the window up.
C1_Witness ==
  /\ Sequential /\ b.leakRatePerMin > 0 /\ Len(hist) = 3
  /\ hist[1].ret /\ ~hist[2].ret /\ hist[3].ret
  /\ hist[3].at > hist[1].at
  /\ (AdmittedIn(hist[1].keyID, 1, 3) - b.size) * MsPerMinute
       = (hist[3].at - hist[1].at) * b.leakRatePerMin

\* C2  Bucket size is the number of requests before limiting.  For size >= 1,
\* in a fault-free run of Add(1, key) calls made one at a time on a key never
\* seen, with no time passing, call number i is allowed exactly when
\* i <= size: the first size calls are allowed and the next is denied.
C2_SizeIsRequestBudget ==
  (/\ Sequential /\ b.size >= 1
   /\ \A i \in 1..Len(hist) :
        hist[i].count = 1 /\ hist[i].keyID = hist[1].keyID /\ hist[i].at = hist[1].at)
  => \A i \in 1..Len(hist) : hist[i].ret = (i <= b.size)

C2_Witness ==
  /\ Sequential /\ b.size = 2 /\ Len(hist) = 3
  /\ \A i \in 1..3 : hist[i].count = 1 /\ hist[i].at = hist[1].at
  /\ hist[1].get = "nil"
  /\ hist[1].ret /\ hist[2].ret /\ ~hist[3].ret

\* The original statement of C3: every stored and every refreshed
\* SpaceRemaining is within 0..size.
C3_ClampEverywhere ==
  /\ \A key \in CacheKeys :
       redis[key].kind = "json" =>
         0 <= redis[key].SpaceRemaining /\ redis[key].SpaceRemaining <= b.size
  /\ \A p \in Procs :
       proc[p].pc = "set" => 0 <= proc[p].curr /\ proc[p].curr <= b.size
  /\ last # NoCall => 0 <= last.curr /\ last.curr <= b.size

\* The refreshed SpaceRemaining of every call is within 0..size, and no
\* stored SpaceRemaining is negative.
RefreshedClamped ==
  /\ \A key \in CacheKeys :
       redis[key].kind = "json" => 0 <= redis[key].SpaceRemaining
  /\ \A p \in Procs :
       proc[p].pc = "set" => 0 <= proc[p].curr /\ proc[p].curr <= b.size
  /\ last # NoCall => 0 <= last.curr /\ last.curr <= b.size

\* The Set of a call with a count >= 0 stores a SpaceRemaining within 0..size.
StoredClampedByFill ==
  \A p \in Procs :
    (/\ proc[p].pc = "set" /\ proc'[p].pc = "idle" /\ last'.set = "ok"
     /\ proc[p].count >= 0)
    => LET e == redis'[getKey(proc[p].keyID)]
       IN  e.kind = "json" /\ 0 <= e.SpaceRemaining /\ e.SpaceRemaining <= b.size

\* C3 (amended)  Clamp invariant.  In every reachable state the refreshed
\* SpaceRemaining returned by getState is within 0..size and the stored
\* SpaceRemaining is >= 0; every Set made by an Add with count >= 0 stores a
\* value within 0..size.  (An admitted Add with a negative count stores
\* refreshed - count, which can exceed size.)
C3_Clamp == []RefreshedClamped /\ [][StoredClampedByFill]_vars

\* The clamp at work: the store holds more than size (left by an Add with a
\* negative count) and the refresh of the next call returns size.
C3_Witness ==
  \E p \in Procs :
    /\ proc[p].pc = "set" /\ proc[p].get = "found" /\ proc[p].curr = b.size
    /\ redis[getKey(proc[p].keyID)].kind = "json"
    /\ redis[getKey(proc[p].keyID)].SpaceRemaining > b.size

\* An Add call was denied in this step: it started and returned at once.
DenyStep == calls' = calls + 1 /\ NInFlight' = NInFlight

\* The last admitted call of hist for key whose Set was applied, or 0.
LastWrite(keyID) ==
  LET W == {i \in CallsFor(keyID) : hist[i].ret /\ hist[i].set = "ok"}
  IN  IF W = {} THEN 0 ELSE CHOOSE i \in W : \A j \in W : j <= i

\* In a fault-free run the stored state of a key is the one written by the
\* last admitted call: its refreshed value less its count, with the
\* timestamp of that call; denied calls have left no trace.
StoredIsLastAcceptedWrite ==
  clean =>
    \A k \in KeyIDs :
      LET w == LastWrite(k)
          e == redis[getKey(k)]
      IN  IF w = 0 THEN e.kind = "nil"
          ELSE /\ e.kind = "json"
               /\ e.LastUpdate = hist[w].at
               /\ e.SpaceRemaining = hist[w].curr - hist[w].count

\* C4  A denied Add does not mutate stored state.  The step of a denied Add
\* leaves the store as it was (value, timestamp, expiry) and issues no Set;
\* hence in a fault-free run the stored timestamp is that of the last
\* accepted write, whatever was denied since.
C4_DenyLeavesStore ==
  /\ [][DenyStep => (redis' = redis /\ last'.set = "none" /\ ~last'.ret)]_vars
  /\ []StoredIsLastAcceptedWrite

\* A call was denied after time had passed since the accepted write, and the
\* store still holds that write's timestamp.
C4_Witness ==
  /\ clean /\ Len(hist) >= 2
  /\ ~hist[Len(hist)].ret /\ hist[Len(hist)].get = "found"
  /\ LET e == redis[getKey(hist[Len(hist)].keyID)]
     IN  e.kind = "json" /\ e.LastUpdate < hist[Len(hist)].at

\* C5  Fail-open on read.  When the Get of a call fails, finds no entry or
\* finds a value that does not unmarshal, the refresh returns SpaceRemaining
\* = size and LastUpdate = now, and the call is allowed if count <= size: it
\* is denied only for a count above size.
C5_FailOpen ==
  /\ \A p \in Procs :
       (proc[p].pc = "set" /\ proc[p].get # "found") =>
          proc[p].curr = b.size /\ proc[p].lu = proc[p].at
  /\ (last # NoCall /\ last.get # "found") =>
       /\ last.curr = b.size
       /\ last.ret = (last.count <= b.size)

\* The store holds a drained bucket, the Get failed, and the call was allowed.
C5_Witness ==
  \E p \in Procs :
    /\ proc[p].pc = "set" /\ proc[p].get = "err" /\ proc[p].count >= 1
    /\ redis[getKey(proc[p].keyID)].kind = "json"
    /\ redis[getKey(proc[p].keyID)].SpaceRemaining = 0
    /\ now < redis[getKey(proc[p].keyID)].expireAt

\* C6  Outage does not disturb stored state.  The statement of the claim: the
\* step that ends an Add (count >= 0) whose Get failed while the store held
\* an entry for the key leaves that entry as it was.  The code contradicts
\* it: fill goes on to setState with the fail-open state, and when that Set
\* succeeds the pre-outage entry is overwritten.
C6_OutageLeavesStore ==
  [][\A p \in Procs :
       (/\ proc[p].pc = "set" /\ proc[p].get = "err" /\ proc'[p].pc = "idle"
        /\ proc[p].count >= 0
        /\ redis[getKey(proc[p].keyID)].kind = "json"
        /\ now < redis[getKey(proc[p].keyID)].expireAt)
         => redis' = redis]_vars

\* C7  Overflow rejection.  An Add with count > size is denied in every
\* reachable state, whatever its Get returned: no handler is past the space
\* check with such a count, and no such call has returned allow.
C7_OverflowRejected ==
  /\ \A p \in Procs : proc[p].pc = "set" => proc[p].count <= b.size
  /\ (last # NoCall /\ last.count > b.size) => ~last.ret

\* A call with count > size was denied although the store held more than
\* size for the key.
C7_Witness ==
  /\ last.count > b.size /\ ~last.ret /\ last.get = "found"
  /\ last.curr = b.size /\ b.size >= 1
  /\ redis[getKey(last.keyID)].kind = "json"
  /\ redis[getKey(last.keyID)].SpaceRemaining > b.size

\* C8  Zero-capacity bucket.  With size = 0 every Add with count >= 1 is
\* denied, whatever the leak rate, the time elapsed and the outcome of the
\* Get (ServeHTTP calls Add(1, key), so every request gets 429).
C8_ZeroSizeDenies ==
  b.size = 0 =>
    /\ \A p \in Procs : proc[p].pc = "set" => proc[p].count < 1
    /\ (last # NoCall /\ last.count >= 1) => ~last.ret

\* With size 0 and a positive leak rate, an Add(1) was denied after time had
\* passed on an entry found in the store.
C8_Witness ==
  /\ b.size = 0 /\ b.leakRatePerMin > 0
  /\ last.count = 1 /\ ~last.ret /\ last.get = "found"
  /\ redis[getKey(last.keyID)].kind = "json"
  /\ now > redis[getKey(last.keyID)].LastUpdate

\* The last call of hist before call i, for the same key, that was admitted
\* and whose Set was applied, or 0.
PrevWrite(i) ==
  LET W == {j \in CallsFor(hist[i].keyID) :
              j < i /\ hist[j].ret /\ hist[j].set = "ok"}
  IN  IF W = {} THEN 0 ELSE CHOOSE j \in W : \A m \in W : m <= j

\* C9  Regeneration after waiting.  With leakRate > 0, in a fault-free run of
\* calls made one at a time, a call with count <= size is allowed as soon as
\* floor(stored + elapsed * leakRate) >= count, where stored and elapsed are
\* measured from the last accepted write, however many calls were denied in
\* between.  (For whole stored and count, floor(x) >= count iff x >= count.)
C9_RegeneratesAfterWait ==
  (Sequential /\ b.leakRatePerMin > 0) =>
    \A i \in 1..Len(hist) :
      LET j == PrevWrite(i)
      IN  (/\ j # 0
           /\ hist[i].count <= b.size
           /\ (hist[i].count - (hist[j].curr - hist[j].count)) * MsPerMinute
                <= (hist[i].at - hist[j].at) * b.leakRatePerMin)
          => hist[i].ret

\* Size 1 at 600/min: allowed, denied 50 ms later, allowed 100 ms after the
\* first call.
C9_Witness ==
  /\ Sequential /\ b.size = 1 /\ b.leakRatePerMin = 600 /\ Len(hist) = 3
  /\ \A i \in 1..3 : hist[i].count = 1
  /\ hist[1].ret /\ ~hist[2].ret /\ hist[3].ret
  /\ hist[2].at > hist[1].at /\ hist[2].get = "found"
  /\ hist[3].at - hist[1].at = 100

\* C10  Accepted check-then-act race.  With leakRate = 0 in a fault-free run
\* (no store error, no expiry, no negative count), the count admitted for a
\* key exceeds size only if two Add calls for the key overlapped: the Get and
\* the Set of fill are separate steps, and the state C10_Witness is reached.
C10_OverAdmissionOnlyByRace ==
  (clean /\ b.leakRatePerMin = 0) =>
    \A k \in KeyIDs :
      AdmittedIn(k, 1, Len(hist)) > b.size
        => \E i \in CallsFor(k) : hist[i].raced

\* Two overlapping Add(1) calls on a bucket of size 1 read the same state,
\* were both allowed and both wrote: 2 admitted, and the store holds the one
\* decrement of the second write.
C10_Witness ==
  /\ clean /\ b.leakRatePerMin = 0 /\ b.size = 1 /\ Len(hist) = 2
  /\ \A i \in 1..2 :
       /\ hist[i].ret /\ hist[i].raced /\ hist[i].set = "ok"
       /\ hist[i].count = 1 /\ hist[i].curr = 1
  /\ hist[1].keyID = hist[2].keyID
  /\ AdmittedIn(hist[1].keyID, 1, 2) > b.size
  /\ redis[getKey(hist[1].keyID)].SpaceRemaining = 0

\* An Add call for keyID with a count of at least 1 is admitted in this step.
AdmitStep(keyID) ==
  /\ calls' = calls + 1
  /\ \E p \in Procs : /\ proc[p].pc = "idle" /\ proc'[p].pc = "set"
                       /\ proc'[p].keyID = keyID /\ proc'[p].count >= 1

\* C12 as stated: with leakRate = 0, while the store holds an unexpired record
\* of the key with spaceRemaining 0, no Add with count >= 1 is admitted.
C12_DrainedDeniesUntilExpiry ==
  [][\A k \in KeyIDs :
       LET e == redis[getKey(k)]
       IN  (/\ b.leakRatePerMin = 0
            /\ e.kind = "json" /\ e.SpaceRemaining = 0 /\ now < e.expireAt)
           => ~AdmitStep(k)]_vars

\* C12  Zero leak rate.  With leakRate = 0, in a fault-free run of calls made
\* one at a time (no store error, no unreadable record, no negative count),
\* elapsed time regenerates nothing: every refresh before the TTL returns
\* exactly what the last accepted write stored, so once that is 0 every Add
\* with count >= 1 is denied; a call that finds no record (none written, or
\* the TTL has run out) sees the full bucket.
C12_ZeroLeakStaysDrained ==
  /\ (Sequential /\ b.leakRatePerMin = 0) =>
       \A i \in 1..Len(hist) :
         LET j == PrevWrite(i)
         IN  j # 0 =>
               /\ hist[i].curr = hist[j].curr - hist[j].count
               /\ (hist[j].curr - hist[j].count = 0 /\ hist[i].count >= 1)
                     => ~hist[i].ret
  /\ \A p \in Procs :
       (proc[p].pc = "set" /\ proc[p].get = "nil") => proc[p].curr = b.size

\* A bucket of size 2 and rate 0 is drained by the first call and a later
\* call, after the clock has advanced, is denied.
C12_Witness ==
  /\ Sequential /\ b.leakRatePerMin = 0 /\ b.size = 2
  /\ \E i \in 1..Len(hist) :
       LET j == PrevWrite(i)
       IN  /\ j # 0
           /\ hist[j].curr - hist[j].count = 0
           /\ hist[i].at > hist[j].at
           /\ hist[i].count = 1 /\ ~hist[i].ret

\* C13  Middleware gating.  Under SpecHTTP a request served by ServeHTTP made one
\* Add(1, keyFunc(request)); when that was allowed the wrapped handler was
\* invoked once and no 429 was written, and when it was denied the status is
\* 429 Too Many Requests and the wrapped handler was not invoked.
C13_MiddlewareGating ==
  /\ last.http =>
       /\ last.count = 1 /\ \E r \in Requests : last.keyID = keyFunc(r)
       /\ last.ret => (last.resp.handler = 1
                        /\ last.resp.status # StatusTooManyRequests)
       /\ ~last.ret => (last.resp.handler = 0
                         /\ last.resp.status = StatusTooManyRequests)
  /\ \A p \in Procs : (proc[p].pc = "set" /\ proc[p].http) => proc[p].count = 1

\* TestThrottleOn: of two requests in a row to a bucket of size 1, the second
\* got 429 and did not reach the handler.
C13_Witness ==
  /\ b.size = 1 /\ calls = 2 /\ last.http /\ ~last.ret /\ last.get = "found"
  /\ last.resp = [handler |-> 0, status |-> StatusTooManyRequests]

\* The Set of an admitted call fails in this step and the call returns.
SetFailStep ==
  /\ \E p \in Procs : proc[p].pc = "set" /\ proc'[p].pc = "idle"
  /\ last'.set = "err"

\* C14  Write failure is non-fatal.  When the refreshed spaceRemaining is at
\* least count and the Set fails, Add still returns true (nothing else
\* reaches the caller) and the store is left as it was: the decrement is lost.
C14_WriteFailureNonFatal ==
  [][SetFailStep =>
       /\ last'.curr >= last'.count
       /\ last'.ret
       /\ redis' = redis]_vars

\* An Add(1) read a stored record, was allowed and its Set failed: the store
\* still holds the value the call had refreshed.
C14_Witness ==
  /\ last.set = "err" /\ last.ret /\ last.get = "found" /\ last.count = 1
  /\ b.leakRatePerMin = 0
  /\ \E k \in KeyIDs : /\ last.keyID = k
                       /\ redis[getKey(k)].kind = "json"
                       /\ redis[getKey(k)].SpaceRemaining = last.curr

\* Elapsed times since lastUpdate at which a refresh of a stored record is
\* compared: none, the clock steps of the model, a minute, the last
\* millisecond before the TTL.
ElapsedTimes == {0, Quantum, MaxTicks * Quantum, MsPerMinute, HourMs - 1}

\* The spaceRemaining a fault-free refresh of the record stored for keyID
\* returns when elapsed ms have passed since its lastUpdate.
RefreshAfter(keyID, elapsed) ==
  getState(redis, keyID, redis[getKey(keyID)].LastUpdate + elapsed,
           FALSE).SpaceRemaining

\* The calls of hist that refreshed the record that call j had written.
RefreshesOf(j) == {i \in 1..Len(hist) : PrevWrite(i) = j}

\* C15 as stated: for a fixed stored record and leakRate > 0 the refresh is
\* non-decreasing in the elapsed time, never below the stored value and
\* capped at capacity.
C15_NeverBelowStored ==
  b.leakRatePerMin > 0 =>
    \A k \in KeyIDs :
      redis[getKey(k)].kind = "json" =>
        \A t1, t2 \in ElapsedTimes :
          t1 <= t2 =>
            /\ RefreshAfter(k, t1) <= RefreshAfter(k, t2)
            /\ RefreshAfter(k, t1) >= redis[getKey(k)].SpaceRemaining
            /\ RefreshAfter(k, t1) <= b.size

\* C15  Leak monotonicity.  For a fixed stored record and leakRate > 0 the
\* refresh is non-decreasing in the elapsed time, never below the smaller of
\* the stored value and the capacity, and capped at capacity; the refreshes
\* that the calls of a fault-free run made of one stored record, in the order
\* of the calls, are non-decreasing too.
C15_LeakMonotone ==
  b.leakRatePerMin > 0 =>
    /\ \A k \in KeyIDs :
         redis[getKey(k)].kind = "json" =>
           \A t1, t2 \in ElapsedTimes :
             t1 <= t2 =>
               /\ RefreshAfter(k, t1) <= RefreshAfter(k, t2)
               /\ RefreshAfter(k, t1)
                    >= Min(redis[getKey(k)].SpaceRemaining, b.size)
               /\ RefreshAfter(k, t1) <= b.size
    /\ Sequential =>
         \A j \in 1..Len(hist) : \A i1, i2 \in RefreshesOf(j) :
           i1 <= i2 =>
             /\ hist[i1].curr <= hist[i2].curr
             /\ hist[i1].curr >= hist[j].curr - hist[j].count

\* Size 1 at 600/min: the first call stores 0; a call 50 ms later refreshes
\* it to 0 and a call after 100 ms to 1, the capacity, and a refresh a
\* minute after the write would be capped there.
C15_Witness ==
  /\ Sequential /\ b.size = 1 /\ b.leakRatePerMin = 600 /\ Len(hist) = 3
  /\ RefreshesOf(1) = {2, 3}
  /\ hist[1].curr - hist[1].count = 0
  /\ hist[2].at < hist[3].at
  /\ hist[2].curr = 0 /\ hist[3].curr = 1
  /\ \E k \in KeyIDs : RefreshAfter(k, MsPerMinute) = b.size

\* C16  Refresh formula.  Every Add call whose Get finds a record refreshes
\* it to min(size, floor(stored + elapsed * leakRate)), elapsed = now -
\* lastUpdate in ms and leakRate = leakRatePerMin / 60000, with lastUpdate =
\* now; with no time elapsed a stored value not above size is read back
\* unchanged.
C16_RefreshFormula ==
  [][\A k \in KeyIDs :
       LET e == redis[getKey(k)]
           elapsed == now - e.LastUpdate
           floored == e.SpaceRemaining
                        + (elapsed * b.leakRatePerMin) \div MsPerMinute
           expected == IF floored <= b.size THEN floored ELSE b.size
       IN  (calls' = calls + 1 /\ e.kind = "json" /\ now < e.expireAt) =>
             /\ (DenyStep /\ last'.keyID = k /\ last'.get = "found")
                  => /\ last'.curr = expected
                     /\ (elapsed = 0 /\ e.SpaceRemaining <= b.size)
                          => last'.curr = e.SpaceRemaining
             /\ \A p \in Procs :
                  (/\ proc[p].pc = "idle" /\ proc'[p].pc = "set"
                   /\ proc'[p].keyID = k /\ proc'[p].get = "found")
                  => /\ proc'[p].curr = expected
                     /\ proc'[p].lu = now
                     /\ (elapsed = 0 /\ e.SpaceRemaining <= b.size)
                          => proc'[p].curr = e.SpaceRemaining]_vars

\* Size 2 at 600/min: a call finds the record (0, 100 ms ago) and refreshes
\* it to floor(0 + 100 * 0.01) = 1, below the capacity, stamped now.
C16_Witness ==
  /\ b.size = 2 /\ b.leakRatePerMin = 600 /\ NInFlight = 1
  /\ \E p \in Procs, k \in KeyIDs :
       /\ proc[p].pc = "set" /\ proc[p].keyID = k /\ proc[p].get = "found"
       /\ redis[getKey(k)].kind = "json"
       /\ redis[getKey(k)].SpaceRemaining = 0
       /\ now - redis[getKey(k)].LastUpdate = 100
       /\ proc[p].curr = 1 /\ proc[p].lu = now

\* The step in which an Add call starts: its Get, the refresh and the check.
RefreshStep == calls' = calls + 1

\* The Set of an admitted call is applied in this step and the call returns.
SetStep ==
  /\ \E p \in Procs : proc[p].pc = "set" /\ proc'[p].pc = "idle"
  /\ last'.set = "ok"

\* The refresh writes nothing, and the one Set of an admitted call stores
\* refreshed - count, stamped now, with a TTL of an hour.
WritesOnlyOnAllow ==
  /\ RefreshStep => redis' = redis
  /\ SetStep =>
       redis' = [redis EXCEPT ![getKey(last'.keyID)] =
                   [kind |-> "json",
                    SpaceRemaining |-> last'.curr - last'.count,
                    LastUpdate |-> now,
                    expireAt |-> now + HourMs]]

\* In a fault-free run of calls made one at a time, a refresh in the same
\* millisecond as the last accepted write sees count fewer units than that
\* call had refreshed.
NextRefreshSeesCountFewer ==
  Sequential =>
    \A i \in 1..Len(hist) :
      LET j == PrevWrite(i)
      IN  (j # 0 /\ hist[i].at = hist[j].at)
            => hist[i].curr = hist[j].curr - hist[j].count

\* C17  Writes happen only on allow.  The state refresh never writes to the
\* store; an Add that returns true issues one Set for the key, with
\* spaceRemaining = refreshed - count, lastUpdate = now and a TTL of one hour;
\* so in a run of calls made one at a time without store errors the refresh
\* that follows immediately sees exactly count fewer units.
C17_WritesOnlyOnAllow ==
  []NextRefreshSeesCountFewer /\ [][WritesOnlyOnAllow]_vars

\* Size 2: Add(1) was allowed and wrote (1, now, now + 1 h); the next call,
\* in the same millisecond, refreshed to 1.
C17_Witness ==
  /\ Sequential /\ b.size = 2 /\ Len(hist) = 2
  /\ hist[1].ret /\ hist[1].count = 1 /\ hist[1].curr = 2
  /\ hist[2].at = hist[1].at /\ hist[2].curr = 1
  /\ \E k \in KeyIDs :
       /\ hist[1].keyID = k /\ hist[2].keyID = k /\ ~hist[2].ret
       /\ redis[getKey(k)] = [kind |-> "json", SpaceRemaining |-> 1,
                              LastUpdate |-> hist[1].at,
                              expireAt |-> hist[1].at + HourMs]

\* The store after a single Bucket has handled the calls 1..i of hist, one
\* after the other, each at the time and with the key and count it had.
RECURSIVE StoreAfter(_)
StoreAfter(i) ==
  IF i = 0 THEN [k \in CacheKeys |-> NilEntry]
  ELSE LET before == StoreAfter(i - 1)
           c == hist[i]
           currState == getState(before, c.keyID, c.at, FALSE)
       IN  IF HasSpace(currState, c.count)
           THEN setState(before, Filled(currState, c.count, c.at),
                         c.keyID, c.at, FALSE)
           ELSE StoreAfterDeny(before, currState, c.keyID, c.at)

\* C18  Shared state across instances.  In a run of Add calls made one at a
\* time without store errors, whichever of the Buckets on the store handled
\* each call, every call refreshed to the value and returned the decision
\* that a single Bucket handling all the calls would have, and the store
\* holds what that Bucket would have left.
C18_InstancesShareState ==
  Sequential =>
    /\ \A i \in 1..Len(hist) :
         LET c == hist[i]
             currState == getState(StoreAfter(i - 1), c.keyID, c.at, FALSE)
         IN  /\ c.curr = currState.SpaceRemaining
             /\ c.ret = HasSpace(currState, c.count)
    /\ NInFlight = 0 => redis = StoreAfter(Len(hist))

\* Size 2, rate 0: Add(1) by instance 1 and Add(1) by instance 2 are
\* allowed; the third Add(1), by instance 1 again, is denied although
\* instance 1 had admitted one drop only.
C18_Witness ==
  /\ Sequential /\ b.size = 2 /\ b.leakRatePerMin = 0 /\ Len(hist) = 3
  /\ \A i \in 1..3 : hist[i].count = 1
  /\ hist[1].inst = 1 /\ hist[2].inst = 2 /\ hist[3].inst = 1
  /\ hist[1].ret /\ hist[2].ret /\ ~hist[3].ret /\ hist[3].curr = 0

\* What the leak formula gives for the record stored for keyID at time t,
\* whether or not its TTL has run out.
LeakFormula(keyID, t) ==
  LET e == redis[getKey(keyID)]
  IN  Min(b.size, e.SpaceRemaining + Leaked(t - e.LastUpdate))

\* At the moment a stored record expires the leak formula gives the full
\* bucket, and a call that finds the record expired sees no more than the
\* leak formula gives.
ExpiryGivesNoMore ==
  \A k \in KeyIDs :
    redis[getKey(k)].kind = "json" =>
      /\ LeakFormula(k, redis[getKey(k)].expireAt) = b.size
      /\ \A p \in Procs :
           (proc[p].pc = "set" /\ proc[p].keyID = k /\ proc[p].get = "nil")
             => proc[p].curr <= LeakFormula(k, proc[p].at)

\* C19 as stated: for every bucket with a leak rate of at least 1 per minute.
C19_TTLRefillsEveryBucket == b.leakRatePerMin >= 1 => ExpiryGivesNoMore

\* C19  TTL outlasts the drain cycle, for every bucket with a leak rate of at
\* least 1 per minute whose size is below what leaks in the hour of the
\* TTL, 60 * leakRatePerMin.
C19_TTLOutlastsDrain ==
  (b.leakRatePerMin >= 1 /\ b.size < MinutesPerHour * b.leakRatePerMin)
    => ExpiryGivesNoMore

\* Size 59 at 1/min: the bucket was drained to 0, the hour of the TTL has
\* passed and the next call finds the record expired and sees 59, what the
\* leak formula gives from the expired record.
C19_Witness ==
  /\ b.size = 59 /\ b.leakRatePerMin = 1
  /\ \E k \in KeyIDs :
       /\ redis[getKey(k)].kind = "json"
       /\ redis[getKey(k)].SpaceRemaining = 0
       /\ now >= redis[getKey(k)].expireAt
       /\ proc[1].pc = "set" /\ proc[1].keyID = k /\ proc[1].get = "nil"
       /\ proc[1].curr = 59
       /\ LeakFormula(k, now) = 59

\* C11  Key isolation: any two distinct (bucketName, keyID) pairs are given
\* distinct cache keys.
C11_KeysUnique ==
  (names.keys # <<>> /\ names.pairs[1] # names.pairs[2])
     => names.keys[1] # names.keys[2]

=============================================================================
